---- MODULE Spec2Model ----
(***************************************************************************)
(* Restaurant Intelligence Platform (src/web_app/app.js): the controller   *)
(* that loads the data index, the regional, cuisine and competitive        *)
(* documents, caches them, and keeps the four panels, the selectors, the   *)
(* status indicator, the insights container and the charts up to date.     *)
(*                                                                         *)
(* One step of the model is one browser task: a user event or the          *)
(* resolution of a network request, together with every continuation that  *)
(* runs before the handler next waits for the network (awaits of values    *)
(* that are already available resume in the same task's microtasks).       *)
(***************************************************************************)
EXTENDS Integers, Sequences, FiniteSets, TLC

(***************************************************************************)
(* Bounds of the model.                                                    *)
(***************************************************************************)
\* Network requests for documents issued in one session.
MaxRequests == 4
MaxIdLen == 2
MaxCached == 2

\* The counts a regional document may state: total_restaurants in
\* -MaxNegative..MaxRestaurants, cuisine_diversity in
\* -MaxNegative..MaxDiversity; the lengths of its emerging_cuisines and
\* market_opportunities lists.
MaxRestaurants == 100
MaxDiversity == 4
MaxNegative == 2
MaxEmerging == 3
MaxOpportunities == 4

(***************************************************************************)
(* The data served to the page.                                            *)
(***************************************************************************)
NULL == "null"

RegionIds == {"PA", "FL"}
CuisineIds == {"Thai", "Pizza"}

\* The data index documents the server may answer with.
IndexFiles ==
  { [coverage |-> TRUE,  regions |-> TRUE,  top_regions |-> <<"PA", "FL">>,
     cuisines |-> TRUE,  main_cuisines |-> <<"Thai", "Pizza">>],
    [coverage |-> TRUE,  regions |-> TRUE,  top_regions |-> <<"PA", "FL">>,
     cuisines |-> FALSE, main_cuisines |-> <<>>],
    [coverage |-> TRUE,  regions |-> TRUE,  top_regions |-> <<>>,
     cuisines |-> TRUE,  main_cuisines |-> <<"Thai", "Pizza">>],
    [coverage |-> TRUE,  regions |-> FALSE, top_regions |-> <<>>,
     cuisines |-> TRUE,  main_cuisines |-> <<"Thai", "Pizza">>],
    [coverage |-> FALSE, regions |-> FALSE, top_regions |-> <<>>,
     cuisines |-> FALSE, main_cuisines |-> <<>>] }

NoIndex ==
  [coverage |-> FALSE, regions |-> FALSE, top_regions |-> <<>>,
   cuisines |-> FALSE, main_cuisines |-> <<>>]

Range(s) == { s[i] : i \in 1..Len(s) }

\* An optional property of a document: <<>> when the document lacks it,
\* <<v>> when it has the value v.
Absent == <<>>
Optional(V) == {Absent} \cup { <<v>> : v \in V }

\* data/regions/<region>.json.  market_overview, competitive_environment
\* and cuisine_landscape say whether the sub-object is present;
\* total_restaurants and cuisine_diversity are properties of
\* market_overview, competition_intensity and overall_quality of
\* competitive_environment, emerging_cuisines (the length of the list) of
\* cuisine_landscape, as is dominant_cuisines (the length of the list, 0 for
\* none); market_opportunities lists each entry's potential.
RegionalFile(region) ==
  IF region = "PA"
  THEN [market_overview |-> TRUE, competitive_environment |-> TRUE,
        market_opportunities |-> <<"high", "medium">>,
        cuisine_landscape |-> TRUE,
        total_restaurants |-> <<120>>, cuisine_diversity |-> <<4>>,
        emerging_cuisines |-> <<1>>, dominant_cuisines |-> 2,
        competition_intensity |-> "high", overall_quality |-> "very_high"]
  ELSE [market_overview |-> FALSE, competitive_environment |-> FALSE,
        market_opportunities |-> <<>>, cuisine_landscape |-> FALSE,
        total_restaurants |-> Absent, cuisine_diversity |-> Absent,
        emerging_cuisines |-> Absent, dominant_cuisines |-> 0,
        competition_intensity |-> NULL, overall_quality |-> NULL]

\* data/cuisines/<cuisine>_analysis.json
CuisineFile(cuisine) ==
  IF cuisine = "Thai"
  THEN [market_overview |-> TRUE, regional_variations |-> {"PA"},
        national_overview |-> TRUE]
  ELSE [market_overview |-> FALSE, regional_variations |-> {},
        national_overview |-> TRUE]

\* data/competitive/<region>_<cuisine>.json
\* null_opportunity: the first entry of differentiation_opportunities is null.
CompetitiveFile(region, cuisine) ==
  CASE region = "PA" /\ cuisine = "Thai" ->
         [metadata |-> TRUE, key_competitors |-> 6,
          differentiation_opportunities |-> 2, market_saturation |-> TRUE,
          regional_context |-> TRUE, strategic_recommendations |-> 1,
          null_opportunity |-> FALSE]
    [] region = "FL" /\ cuisine = "Pizza" ->
         [metadata |-> FALSE, key_competitors |-> 3,
          differentiation_opportunities |-> 0, market_saturation |-> TRUE,
          regional_context |-> FALSE, strategic_recommendations |-> 0,
          null_opportunity |-> FALSE]
    [] region = "PA" /\ cuisine = "Pizza" ->
         [metadata |-> TRUE, key_competitors |-> 0,
          differentiation_opportunities |-> 1, market_saturation |-> FALSE,
          regional_context |-> FALSE, strategic_recommendations |-> 0,
          null_opportunity |-> FALSE]
    [] OTHER ->
         [metadata |-> TRUE, key_competitors |-> 0,
          differentiation_opportunities |-> 0, market_saturation |-> FALSE,
          regional_context |-> FALSE, strategic_recommendations |-> 0,
          null_opportunity |-> FALSE]

\* A fetched document: the file's content, the request it answers (kind,
\* region, cuisine) and which fetch of its key produced it (n): two loads
\* return the same object exactly when they agree on n.
Doc(kind, region, cuisine, n, body) ==
  [kind |-> kind, region |-> region, cuisine |-> cuisine, n |-> n, body |-> body]

NoDoc == Doc("none", NULL, NULL, 0, CuisineFile(NULL))

(***************************************************************************)
(* Cache keys and URLs.                                                    *)
(***************************************************************************)
RegionKey(region) == "region_" \o region
CuisineKey(cuisine) == "cuisine_" \o cuisine
CompetitiveKey(region, cuisine) == "competitive_" \o region \o "_" \o cuisine

AllKeys ==
  {RegionKey(r) : r \in RegionIds} \cup {CuisineKey(c) : c \in CuisineIds}
    \cup {CompetitiveKey(r, c) : r \in RegionIds, c \in CuisineIds}

IndexUrl == "data/data_index.json"
RegionUrl(region) == "data/regions/" \o region \o ".json"
CuisineUrl(cuisine) == "data/cuisines/" \o cuisine \o "_analysis.json"
CompetitiveUrl(region, cuisine) ==
  "data/competitive/" \o region \o "_" \o cuisine \o ".json"

(***************************************************************************)
(* The state of the page.                                                  *)
(***************************************************************************)
VARIABLES
  initPc,         \* init(): "loading" (index fetch pending), "done", "failed"
  dataIndex,      \* this.dataIndex
  listeners,      \* the change listeners are attached
  regionSelect,   \* #regionSelect: selected value, values offered
  cuisineSelect,  \* #cuisineSelect: disabled flag, placeholder, selected
                  \* value, values offered
  currentRegion,  \* this.currentRegion
  currentCuisine, \* this.currentCuisine
  dataCache,      \* this.dataCache: cache key -> document
  fetches,        \* cache key -> network requests issued for it so far
  net,            \* the network requests in flight
  handlers,       \* the selection handlers suspended at an await fetch
  status,         \* #statusIndicator
  panels,         \* the four panels: display mode, rendered list, empty text
  insights,       \* #insightsContainer
  badges,         \* the four metric badges of the ecosystem panel
  charts,         \* this.charts
  live,           \* chart instances not destroyed, per canvas
  ops             \* the operations performed by the latest task, in order

vars ==
  <<initPc, dataIndex, listeners, regionSelect, cuisineSelect, currentRegion,
    currentCuisine, dataCache, fetches, net, handlers, status, panels,
    insights, badges, charts, live, ops>>

\* A piece of text written into the page: its template and what it names.
Msg(kind, region, cuisine) ==
  [kind |-> kind, region |-> region, cuisine |-> cuisine]

\* What a panel's list shows: the selection it was rendered for, the data
\* source used and the number of records.
NoData == [region |-> NULL, cuisine |-> NULL, source |-> "none", n |-> 0]

Shown(region, cuisine, source, n) ==
  [region |-> region, cuisine |-> cuisine, source |-> source, n |-> n]

NoChart == [type |-> "none", region |-> NULL, cuisine |-> NULL, data |-> <<>>]

PanelIds == {"ecosystem", "cuisine", "competitive", "opportunities"}
CuisinePanelIds == {"cuisine", "competitive", "opportunities"}

\* The page as index.html delivers it: every panel in empty mode with its
\* initial text, the cuisine selector disabled behind its placeholder.
InitialPanel ==
  [mode |-> "empty", shows |-> NoData, emptyText |-> Msg("initial", NULL, NULL)]

InitialCuisineSelect ==
  [disabled |-> TRUE, placeholder |-> "Select region first...", value |-> "",
   options |-> {}]

\* The badges as index.html delivers them, inside the hidden panel content.
InitialBadges ==
  [diversityScore |-> Absent, saturationLevel |-> "--",
   opportunityScore |-> Absent, customerSophistication |-> "--"]

\* The program state as one value, threaded through the operations below.
Here ==
  [initPc |-> initPc, dataIndex |-> dataIndex, listeners |-> listeners,
   regionSelect |-> regionSelect, cuisineSelect |-> cuisineSelect,
   currentRegion |-> currentRegion, currentCuisine |-> currentCuisine,
   dataCache |-> dataCache, fetches |-> fetches, net |-> net,
   handlers |-> handlers, status |-> status, panels |-> panels,
   insights |-> insights, badges |-> badges, charts |-> charts,
   live |-> live, ops |-> <<>>]

Commit(S) ==
  /\ initPc' = S.initPc
  /\ dataIndex' = S.dataIndex
  /\ listeners' = S.listeners
  /\ regionSelect' = S.regionSelect
  /\ cuisineSelect' = S.cuisineSelect
  /\ currentRegion' = S.currentRegion
  /\ currentCuisine' = S.currentCuisine
  /\ dataCache' = S.dataCache
  /\ fetches' = S.fetches
  /\ net' = S.net
  /\ handlers' = S.handlers
  /\ status' = S.status
  /\ panels' = S.panels
  /\ insights' = S.insights
  /\ badges' = S.badges
  /\ charts' = S.charts
  /\ live' = S.live
  /\ ops' = S.ops

Did(S, op) == [S EXCEPT !.ops = Append(@, op)]

(***************************************************************************)
(* Status indicator.                                                       *)
(***************************************************************************)
updateStatus(S, type, message) ==
  Did([S EXCEPT !.status = [type |-> type, msg |-> message]],
      "updateStatus:" \o type)

(***************************************************************************)
(* Initialisation.                                                         *)
(***************************************************************************)
\* The constructor, and init() up to its await of the index fetch.
Init ==
  /\ initPc = "loading"
  /\ dataIndex = NoIndex
  /\ listeners = FALSE
  /\ regionSelect = [value |-> "", options |-> {}]
  /\ cuisineSelect = InitialCuisineSelect
  /\ currentRegion = NULL
  /\ currentCuisine = NULL
  /\ dataCache = [k \in {} |-> NoDoc]
  /\ fetches = [k \in AllKeys |-> 0]
  /\ net = {}
  /\ handlers = {}
  /\ status = [type |-> "none", msg |-> Msg("initial", NULL, NULL)]
  /\ panels = [p \in PanelIds |-> InitialPanel]
  /\ insights = [kind |-> "initial", titles |-> <<>>]
  /\ badges = InitialBadges
  /\ charts = [c \in {"ecosystem", "cuisine"} |-> NoChart]
  /\ live = [c \in {"ecosystem", "cuisine"} |-> 0]
  /\ ops = <<>>

setupEventListeners(S) == Did([S EXCEPT !.listeners = TRUE], "setupEventListeners")

populateRegionSelector(S) ==
  Did([S EXCEPT !.regionSelect =
         [value |-> "", options |-> Range(S.dataIndex.top_regions)]],
      "populateRegionSelector")

\* loadDataIndex without the check of coverage.regions.
loadDataIndex_Unchecked(S, outcome, file) ==
  IF outcome # "ok"
  THEN [S |-> S, threw |-> TRUE]
  ELSE [S |-> [S EXCEPT !.dataIndex = file], threw |-> FALSE]

\* loadDataIndex() after the response arrived: "http" is a non-2xx status,
\* "parse" a body that is not JSON, "ok" the index document `file`.
\* Returns the state and whether loadDataIndex threw.
loadDataIndex(S, outcome, file) ==
  IF outcome # "ok"
  THEN [S |-> S, threw |-> TRUE]
  ELSE LET T == [S EXCEPT !.dataIndex = file]
       IN  [S |-> T, threw |-> ~file.coverage \/ ~file.regions]

\* init() that attaches the listeners whether or not loadDataIndex threw.
IndexResolved_AlwaysListens ==
  /\ initPc = "loading"
  /\ \E outcome \in {"ok", "http", "parse"}, file \in IndexFiles :
       LET L == loadDataIndex(Here, outcome, file)
       IN  IF L.threw
           THEN Commit(updateStatus(
                         Did(setupEventListeners([L.S EXCEPT !.initPc = "failed"]),
                             "caught:init"),
                         "error", Msg("System initialization failed", NULL, NULL)))
           ELSE Commit(updateStatus(
                  populateRegionSelector(
                    setupEventListeners([L.S EXCEPT !.initPc = "done"])),
                  "ready", Msg("System ready", NULL, NULL)))

\* init() from the resolution of the index fetch on.
IndexResolved ==
  /\ initPc = "loading"
  /\ \E outcome \in {"ok", "http", "parse"}, file \in IndexFiles :
       LET L == loadDataIndex(Here, outcome, file)
       IN  IF L.threw
           THEN Commit(updateStatus(
                         Did([L.S EXCEPT !.initPc = "failed"], "caught:init"),
                         "error", Msg("System initialization failed", NULL, NULL)))
           ELSE Commit(updateStatus(
                  populateRegionSelector(
                    setupEventListeners([L.S EXCEPT !.initPc = "done"])),
                  "ready", Msg("System ready", NULL, NULL)))

(***************************************************************************)
(* The response cache and the network.                                     *)
(***************************************************************************)
Total(f) ==
  LET RECURSIVE Sum(_)
      Sum(K) == IF K = {} THEN 0
                ELSE LET k == CHOOSE x \in K : TRUE IN f[k] + Sum(K \ {k})
  IN  Sum(DOMAIN f)

\* Requests a suspended handler may still issue: a cuisine handler waiting
\* for its cuisine document goes on to load the competitive document.
Reserved(H) == Cardinality({h \in H : h.pc = "cuisine"})

CanIssue(S, k) == Total(S.fetches) + Reserved(S.handlers) + k <= MaxRequests

cacheHas(S, key) == key \in DOMAIN S.dataCache

\* A cache that holds the latest document only.
cacheSet_Replace(S, key, doc) ==
  [S EXCEPT !.dataCache = [k \in {key} |-> doc]]

cacheSet(S, key, doc) ==
  [S EXCEPT !.dataCache = [k \in DOMAIN @ \cup {key} |->
                             IF k = key THEN doc ELSE @[k]]]

\* fetch(url): the request goes out and the handler is suspended at its
\* await; `bust` says whether the URL carries the ?t=<timestamp> parameter.
issueFetch(S, handlerKind, pc, key, url, bust, region, cuisine, cuisineData) ==
  LET n == S.fetches[key] + 1
  IN  Did([S EXCEPT
             !.fetches[key] = n,
             !.net = @ \cup {[key |-> key, n |-> n, url |-> url, bust |-> bust]},
             !.handlers = @ \cup {[kind |-> handlerKind, pc |-> pc, key |-> key,
                                   n |-> n, region |-> region,
                                   cuisine |-> cuisine,
                                   cuisineData |-> cuisineData]}],
          "fetch:" \o pc)

\* How a task that resumes a handler at pc starts: its fetch resolved with a
\* document, or its load threw (a non-2xx status, a body that is not JSON).
Settled(outcome, pc) ==
  (IF outcome = "ok" THEN "resolved:" ELSE "rejected:") \o pc

\* A load awaits fetch(url) and then response.json(); nothing of the page
\* or of the controller changes between the two, so their completion is
\* one step whose outcome is the document or the error thrown.
\* The response of handler h's request arrived: the request leaves the
\* network and the handler resumes.
resume(S, h) ==
  [S EXCEPT !.net = {q \in @ : ~(q.key = h.key /\ q.n = h.n)},
            !.handlers = @ \ {h}]

(***************************************************************************)
(* Charts.                                                                 *)
(***************************************************************************)
Chart(type, region, cuisine) ==
  [type |-> type, region |-> region, cuisine |-> cuisine, data |-> <<>>]

destroyChart(S, slot) ==
  IF S.charts[slot] # NoChart
  THEN Did([S EXCEPT !.live[slot] = @ - 1], "destroy:" \o slot)
  ELSE S

newChart(S, slot, chart) ==
  Did([S EXCEPT !.charts[slot] = chart, !.live[slot] = @ + 1],
      "new Chart:" \o slot)

\* The scores updateEcosystemPanel hands to createEcosystemChart are the
\* doubles score / 100; a double of this kind is written as the integer
\* score it was computed from (the division is injective on integers).
HealthData(diversityScore, opportunityScore) ==
  [diversity_score |-> diversityScore, opportunity_score |-> opportunityScore]

\* floor(log2(x)) and floor(log2(x / 100)) for an integer x > 0.
Exponent(x) == CHOOSE j \in 0..27 : 2^j <= x /\ x < 2^(j + 1)

PercentExponent(x) ==
  IF x >= 100
  THEN CHOOSE j \in 0..20 : 100 * 2^j <= x /\ x < 100 * 2^(j + 1)
  ELSE 0 - (CHOOSE j \in 1..7 : x * 2^j >= 100 /\ x * 2^(j - 1) < 100)

Pow2Mod100(k) ==
  LET RECURSIVE P(_)
      P(j) == IF j = 0 THEN 1 ELSE (2 * P(j - 1)) % 100
  IN  P(k)

\* The sign of (x / 100) * 100 - x in IEEE double arithmetic, x > 0.
\* x / 100 is rounded to m * 2^-K with a 53-bit m, K = 52 - floor(log2(x/100));
\* the product 100 * m * 2^-K is x + r * 2^-K with r = 100 * m - x * 2^K,
\* |r| <= 50, and it rounds back to x unless |r| * 2^-K exceeds half an ulp
\* of x, which is 32 * 2^-K or 64 * 2^-K.
RoundTripSign(x) ==
  LET K == 52 - PercentExponent(x)
      rem == ((x % 100) * Pow2Mod100(K)) % 100
      r == IF rem <= 50 THEN 0 - rem ELSE 100 - rem
  IN  IF Exponent(x) - PercentExponent(x) = 6 /\ (r > 32 \/ r < 0 - 32)
      THEN (IF r > 0 THEN 1 ELSE 0 - 1)
      ELSE 0

\* (h || 0.5) * 100 for the double h = score / 100: the integer the product
\* is nearest to and the sign of its difference from that integer.
DataPoint(score) ==
  IF score = 0 THEN [near |-> 50, off |-> 0]
  ELSE IF score > 0 THEN [near |-> score, off |-> RoundTripSign(score)]
  ELSE [near |-> score, off |-> 0 - RoundTripSign(0 - score)]

\* The radar chart with its Diversity and Opportunity data points.
EcosystemChart(regionalData, healthData) ==
  [Chart("radar", regionalData.region, NULL) EXCEPT
     !.data = <<DataPoint(healthData.diversity_score),
                DataPoint(healthData.opportunity_score)>>]

\* createEcosystemChart without the destroy of the registered chart.
createEcosystemChart_NoDestroy(S, regionalData, healthData) ==
  newChart(S, "ecosystem", EcosystemChart(regionalData, healthData))

createEcosystemChart(S, regionalData, healthData) ==
  newChart(destroyChart(S, "ecosystem"), "ecosystem",
           EcosystemChart(regionalData, healthData))

createCuisineChart(S, cuisineData, competitiveData) ==
  newChart(destroyChart(S, "cuisine"), "cuisine",
           IF competitiveData.body.metadata
           THEN Chart("doughnut", competitiveData.region, competitiveData.cuisine)
           ELSE Chart("bar", NULL, NULL))

(***************************************************************************)
(* Insights.                                                               *)
(***************************************************************************)
\* displayInsights without the placeholder for an empty sequence.
displayInsights_NoPlaceholder(S, titles) ==
  Did([S EXCEPT !.insights = [kind |-> "insights", titles |-> titles]],
      "displayInsights")

displayInsights(S, titles) ==
  Did([S EXCEPT !.insights =
         IF Len(titles) = 0
         THEN [kind |-> "placeholder", titles |-> <<>>]
         ELSE [kind |-> "insights", titles |-> titles]],
      "displayInsights")

When(present, title) == IF present THEN <<title>> ELSE <<>>

updateRegionalInsights(S, regionalData) ==
  LET b == regionalData.body
  IN  displayInsights(S,
        When(b.market_overview, "Regional Market Overview")
          \o When(b.competitive_environment, "Business Environment")
          \o When(Len(b.market_opportunities) > 0, "Market Opportunities")
          \o When(b.cuisine_landscape /\ b.dominant_cuisines > 0,
                  "Cuisine Landscape"))

\* generateComprehensiveInsights that looks at market_saturation first.
generateComprehensiveInsights_SaturationFirst(S, cuisineData, competitiveData) ==
  LET c == cuisineData.body
      k == competitiveData.body
  IN  displayInsights(Did(S, "generateComprehensiveInsights"),
        When(k.market_saturation, "Competitive Landscape")
          \o When(c.market_overview, "Market Analysis")
          \o When(k.regional_context, "Market Positioning Strategy")
          \o When(k.strategic_recommendations > 0, "Strategic Recommendation"))

generateComprehensiveInsights(S, cuisineData, competitiveData) ==
  LET c == cuisineData.body
      k == competitiveData.body
  IN  displayInsights(Did(S, "generateComprehensiveInsights"),
        When(c.market_overview, "Market Analysis")
          \o When(k.market_saturation, "Competitive Landscape")
          \o When(k.regional_context, "Market Positioning Strategy")
          \o When(k.strategic_recommendations > 0, "Strategic Recommendation"))

(***************************************************************************)
(* Derived metrics.                                                        *)
(***************************************************************************)
Min(a, b) == IF a < b THEN a ELSE b

\* x || d for an optional number x: the default for absent and for 0.
OrElse(x, d) == IF x = Absent \/ x[1] = 0 THEN d ELSE x[1]

\* Math.round of num/den, den > 0: the nearest integer, halves upwards.
Round(num, den) == (2 * num + den) \div (2 * den)

\* regionalData.market_overview || {}
overviewOf(b) ==
  IF b.market_overview
  THEN [total_restaurants |-> b.total_restaurants,
        cuisine_diversity |-> b.cuisine_diversity]
  ELSE [total_restaurants |-> Absent, cuisine_diversity |-> Absent]

\* regionalData.competitive_environment || {}
competitiveOf(b) ==
  IF b.competitive_environment
  THEN [competition_intensity |-> b.competition_intensity,
        overall_quality |-> b.overall_quality]
  ELSE [competition_intensity |-> NULL, overall_quality |-> NULL]

\* regionalData.cuisine_landscape || {}
landscapeOf(b) ==
  IF b.cuisine_landscape
  THEN [emerging_cuisines |-> b.emerging_cuisines]
  ELSE [emerging_cuisines |-> Absent]

\* (cuisineCount / totalRestaurants) * 1000 is kept as the fraction num/den
\* with den > 0.
calculateDiversityScore(overview, landscape) ==
  LET cuisineCount == OrElse(overview.cuisine_diversity, 0)
      totalRestaurants == OrElse(overview.total_restaurants, 1)
      num == IF totalRestaurants > 0 THEN 1000 * cuisineCount
             ELSE 0 - 1000 * cuisineCount
      den == IF totalRestaurants > 0 THEN totalRestaurants
             ELSE 0 - totalRestaurants
      emerging == landscape.emerging_cuisines
      bonus == IF emerging # Absent /\ emerging[1] > 0 THEN emerging[1] * 5
               ELSE 0
  IN  Min(100, IF num >= 100 * den THEN 100 + bonus
               ELSE Round(num + bonus * den, den))

\* Names every object literal inherits from Object.prototype: mapping[name]
\* is the inherited function or object, which is truthy, not undefined.
InheritedKeys ==
  {"constructor", "toString", "valueOf", "hasOwnProperty", "__proto__"}

\* The inherited value, as the text a badge shows for it.
Inherited(name) == "Object.prototype." \o name

mapSaturationLevel(competitionIntensity) ==
  CASE competitionIntensity = "low" -> "Low"
    [] competitionIntensity = "medium" -> "Medium"
    [] competitionIntensity = "high" -> "High"
    [] competitionIntensity = "very_high" -> "Very High"
    [] competitionIntensity \in InheritedKeys -> Inherited(competitionIntensity)
    [] OTHER -> "Medium"

IsHighPotential(potential) == potential = "high"

\* calculateOpportunityScore without the cap at 100.
calculateOpportunityScore_Uncapped(opportunities, overview) ==
  LET totalRestaurants == OrElse(overview.total_restaurants, 0)
  IN  50 + Len(opportunities) * 10
         + Len(SelectSeq(opportunities, IsHighPotential)) * 15
         + (IF totalRestaurants < 50 THEN 20
            ELSE IF totalRestaurants < 100 THEN 10 ELSE 0)

calculateOpportunityScore(opportunities, overview) ==
  LET base == 50
      withOpportunities ==
        IF Len(opportunities) > 0
        THEN base + Len(opportunities) * 10
               + Len(SelectSeq(opportunities, IsHighPotential)) * 15
        ELSE base
      totalRestaurants == OrElse(overview.total_restaurants, 0)
      score == IF totalRestaurants < 50 THEN withOpportunities + 20
               ELSE IF totalRestaurants < 100 THEN withOpportunities + 10
               ELSE withOpportunities
  IN  Min(100, score)

mapCustomerLevel(overallQuality) ==
  CASE overallQuality = "low" -> "Basic"
    [] overallQuality = "medium" -> "Moderate"
    [] overallQuality = "high" -> "Sophisticated"
    [] overallQuality = "very_high" -> "Expert"
    [] overallQuality \in InheritedKeys -> Inherited(overallQuality)
    [] OTHER -> "Moderate"

(***************************************************************************)
(* Region panel.                                                           *)
(***************************************************************************)
\* updateEcosystemPanel that writes the badges only for a document with
\* market_overview.
updateEcosystemPanel_NeedsOverview(S, regionalData) ==
  LET b == regionalData.body
      T == Did(S, "updateEcosystemPanel")
      U == [T EXCEPT !.panels["ecosystem"].mode = "content",
                     !.panels["ecosystem"].shows =
                        Shown(regionalData.region, NULL, "regional", 1)]
  IN  IF b.market_overview \/ b.competitive_environment
      THEN createEcosystemChart(
             IF b.market_overview
             THEN [U EXCEPT !.badges =
                     [diversityScore |->
                        <<calculateDiversityScore(overviewOf(b), landscapeOf(b))>>,
                      saturationLevel |->
                        mapSaturationLevel(competitiveOf(b).competition_intensity),
                      opportunityScore |->
                        <<calculateOpportunityScore(b.market_opportunities,
                                                    overviewOf(b))>>,
                      customerSophistication |->
                        mapCustomerLevel(competitiveOf(b).overall_quality)]]
             ELSE U,
             regionalData,
             HealthData(calculateDiversityScore(overviewOf(b), landscapeOf(b)),
                        calculateOpportunityScore(b.market_opportunities,
                                                  overviewOf(b))))
      ELSE [T EXCEPT !.panels["ecosystem"].mode = "empty"]

updateEcosystemPanel(S, regionalData) ==
  LET b == regionalData.body
      T == Did(S, "updateEcosystemPanel")
      overview == overviewOf(b)
      competitive == competitiveOf(b)
      landscape == landscapeOf(b)
      opportunities == b.market_opportunities
  IN  IF b.market_overview \/ b.competitive_environment
      THEN createEcosystemChart(
             [T EXCEPT !.panels["ecosystem"].mode = "content",
                       !.panels["ecosystem"].shows =
                          Shown(regionalData.region, NULL, "regional", 1),
                       !.badges =
                          [diversityScore |->
                             <<calculateDiversityScore(overview, landscape)>>,
                           saturationLevel |->
                             mapSaturationLevel(competitive.competition_intensity),
                           opportunityScore |->
                             <<calculateOpportunityScore(opportunities, overview)>>,
                           customerSophistication |->
                             mapCustomerLevel(competitive.overall_quality)]],
             regionalData,
             HealthData(calculateDiversityScore(overview, landscape),
                        calculateOpportunityScore(opportunities, overview)))
      ELSE [T EXCEPT !.panels["ecosystem"].mode = "empty"]

populateCuisineSelector(S) ==
  LET cuisines == S.dataIndex.main_cuisines
  IN  Did([S EXCEPT !.cuisineSelect =
             [disabled |-> Len(cuisines) = 0,
              placeholder |-> "Select a cuisine...", value |-> "",
              options |-> Range(cuisines)]],
          "populateCuisineSelector")

\* clearAllPanels that resets the panels and the status but not the charts.
clearAllPanels_KeepsCharts(S) ==
  updateStatus(
    Did([S EXCEPT
           !.panels = [p \in PanelIds |-> [@[p] EXCEPT !.mode = "empty"]],
           !.cuisineSelect = InitialCuisineSelect,
           !.insights = [kind |-> "initial", titles |-> <<>>]],
        "clearAllPanels"),
    "ready", Msg("Select a region to begin analysis", NULL, NULL))

clearAllPanels(S) ==
  LET T == [S EXCEPT
              !.panels = [p \in PanelIds |-> [@[p] EXCEPT !.mode = "empty"]],
              !.cuisineSelect = InitialCuisineSelect,
              !.insights = [kind |-> "initial", titles |-> <<>>]]
      U == destroyChart(destroyChart(Did(T, "clearAllPanels"), "ecosystem"),
                        "cuisine")
  IN  updateStatus([U EXCEPT !.charts = [c \in DOMAIN @ |-> NoChart]],
                   "ready", Msg("Select a region to begin analysis", NULL, NULL))

(***************************************************************************)
(* Region selection.                                                       *)
(***************************************************************************)
\* A handler that renders only while its region is still the selected one.
regionLoaded_IfCurrent(S, region, regionalData) ==
  IF S.currentRegion = region /\ S.regionSelect.value = region
  THEN updateStatus(
         updateRegionalInsights(
           populateCuisineSelector(updateEcosystemPanel(S, regionalData)),
           regionalData),
         "ready", Msg("Region loaded successfully", region, NULL))
  ELSE S

\* onRegionSelected after loadRegionalData returned regionalData.
regionLoaded(S, region, regionalData) ==
  updateStatus(
    updateRegionalInsights(
      populateCuisineSelector(updateEcosystemPanel(S, regionalData)),
      regionalData),
    "ready", Msg("Region loaded successfully", region, NULL))

\* A catch that loads the region again after reporting the error.
regionFailed_Retry(S, region) ==
  issueFetch(updateStatus(Did(S, "caught:onRegionSelected"), "error",
                          Msg("Failed to load data for region", region, NULL)),
             "region", "regional", RegionKey(region), RegionUrl(region), FALSE,
             region, NULL, NoDoc)

\* onRegionSelected's catch.
regionFailed(S, region) ==
  updateStatus(Did(S, "caught:onRegionSelected"), "error",
               Msg("Failed to load data for region", region, NULL))

\* onRegionSelected without the reset of currentCuisine.
selectRegion_KeepsCuisine(S, region) ==
  [S EXCEPT !.currentRegion = region]

\* onRegionSelected's first assignments.
selectRegion(S, region) ==
  [S EXCEPT !.currentRegion = region, !.currentCuisine = NULL]

\* onRegionSelected(region) for a region of the selector, up to its first
\* wait for the network.
onRegionSelected(S, region) ==
  LET T == updateStatus(selectRegion(S, region), "loading",
                        Msg("Loading data for region", region, NULL))
      key == RegionKey(region)
  IN  IF cacheHas(T, key)
      THEN regionLoaded(T, region, T.dataCache[key])
      ELSE issueFetch(T, "region", "regional", key, RegionUrl(region), FALSE,
                      region, NULL, NoDoc)

\* The user picks a region: the selector takes the value and its change
\* listener calls onRegionSelected.
RegionSelected ==
  /\ listeners
  /\ \E region \in regionSelect.options \ {regionSelect.value} :
       /\ cacheHas(Here, RegionKey(region)) \/ CanIssue(Here, 1)
       /\ Commit(onRegionSelected(
                   Did([Here EXCEPT !.regionSelect.value = region],
                       "onRegionSelected"),
                   region))

\* The user picks the placeholder of the region selector: onRegionSelected("").
RegionDeselected ==
  /\ listeners
  /\ regionSelect.value # ""
  /\ Commit(clearAllPanels(Did([Here EXCEPT !.regionSelect.value = ""],
                               "onRegionSelected")))

\* The regional fetch of a suspended region handler resolves.
RegionalFetchResolved ==
  \E h \in handlers, outcome \in {"ok", "http", "parse"} :
    /\ h.pc = "regional"
    /\ LET S == resume(Did(Here, Settled(outcome, h.pc)), h)
           doc == Doc("regional", h.region, NULL, h.n, RegionalFile(h.region))
       IN  IF outcome = "ok"
           THEN Commit(regionLoaded(cacheSet(S, h.key, doc), h.region, doc))
           ELSE Commit(regionFailed(S, h.region))

(***************************************************************************)
(* Cuisine panels.                                                         *)
(***************************************************************************)
clearCuisineContent(S) ==
  Did([S EXCEPT !.panels = [p \in PanelIds |->
                  IF p \in CuisinePanelIds
                  THEN [@[p] EXCEPT !.shows = NoData] ELSE @[p]]],
      "clearCuisineContent")

\* updateCuisinePanel's choice of displayData: the records to list and the
\* data source they come from.
selectDisplayData(cuisineData, competitiveData, region) ==
  LET c == cuisineData.body
      k == competitiveData.body
  IN  IF k.key_competitors > 0
      THEN Shown(competitiveData.region, competitiveData.cuisine,
                 "key_competitors", Min(5, k.key_competitors))
      ELSE IF c.regional_variations # {}
      THEN IF region \in c.regional_variations
           THEN Shown(region, cuisineData.cuisine, "regional_variations", 1)
           ELSE Shown(NULL, NULL, "unknown", 0)
      ELSE IF c.national_overview
      THEN Shown(NULL, cuisineData.cuisine, "national_overview", 1)
      ELSE Shown(NULL, NULL, "unknown", 0)

updateCuisinePanel(S, cuisineData, competitiveData) ==
  LET displayData == selectDisplayData(cuisineData, competitiveData,
                                       S.currentRegion)
      T == Did(S, "updateCuisinePanel")
      \* restaurant counts are positive where the object holding them is present
      hasAnyData == competitiveData.body.metadata
                      \/ cuisineData.body.national_overview
  IN  IF displayData.n > 0
      THEN createCuisineChart(
             [T EXCEPT !.panels["cuisine"].mode = "content",
                       !.panels["cuisine"].shows = displayData],
             cuisineData, competitiveData)
      ELSE [T EXCEPT !.panels["cuisine"].mode = "empty",
                     !.panels["cuisine"].emptyText =
                        Msg(IF hasAnyData
                            THEN "Data available but no detailed analysis"
                            ELSE "No data available",
                            S.currentRegion, S.currentCuisine)]

\* updateCompetitivePanel without its else branch: with no competitors the
\* panel keeps the mode it had.
updateCompetitivePanel_KeepsMode(S, competitiveData) ==
  LET k == competitiveData.body
      T == Did(S, "updateCompetitivePanel")
  IN  IF k.key_competitors > 0
      THEN [T EXCEPT !.panels["competitive"].mode = "content",
                     !.panels["competitive"].shows =
                        Shown(competitiveData.region, competitiveData.cuisine,
                              "key_competitors", Min(5, k.key_competitors))]
      ELSE T

updateCompetitivePanel(S, competitiveData) ==
  LET k == competitiveData.body
      T == Did(S, "updateCompetitivePanel")
  IN  IF k.key_competitors > 0
      THEN [T EXCEPT !.panels["competitive"].mode = "content",
                     !.panels["competitive"].shows =
                        Shown(competitiveData.region, competitiveData.cuisine,
                              "key_competitors", Min(5, k.key_competitors))]
      ELSE [T EXCEPT !.panels["competitive"].mode = "empty"]

\* Reading a property of a null entry throws inside the forEach: the grid
\* was emptied, no card was appended, and the catch only logs the error.
updateOpportunitiesPanel(S, cuisineData, competitiveData) ==
  LET k == competitiveData.body
      T == Did(S, "updateOpportunitiesPanel")
  IN  IF k.differentiation_opportunities > 0
      THEN IF k.null_opportunity
           THEN Did([T EXCEPT !.panels["opportunities"].mode = "content",
                              !.panels["opportunities"].shows =
                                 Shown(competitiveData.region,
                                       competitiveData.cuisine,
                                       "differentiation_opportunities", 0)],
                    "caught:updateOpportunitiesPanel")
           ELSE [T EXCEPT !.panels["opportunities"].mode = "content",
                          !.panels["opportunities"].shows =
                             Shown(competitiveData.region, competitiveData.cuisine,
                                   "differentiation_opportunities",
                                   Min(5, k.differentiation_opportunities))]
      ELSE [T EXCEPT !.panels["opportunities"].mode = "empty"]

\* updateAllPanels rendering the competitive panel before the cuisine panel.
updateAllPanels_CompetitiveFirst(S, cuisineData, competitiveData) ==
  generateComprehensiveInsights(
    updateOpportunitiesPanel(
      updateCuisinePanel(
        updateCompetitivePanel(S, competitiveData),
        cuisineData, competitiveData),
      cuisineData, competitiveData),
    cuisineData, competitiveData)

updateAllPanels(S, cuisineData, competitiveData) ==
  generateComprehensiveInsights(
    updateOpportunitiesPanel(
      updateCompetitivePanel(
        updateCuisinePanel(S, cuisineData, competitiveData),
        competitiveData),
      cuisineData, competitiveData),
    cuisineData, competitiveData)

\* showErrorInPanels over all four panels.
showErrorInPanels_AllPanels(S, errorMessage) ==
  Did([S EXCEPT !.panels = [p \in PanelIds |->
                  [@[p] EXCEPT !.mode = "empty", !.emptyText = errorMessage]]],
      "showErrorInPanels")

showErrorInPanels(S, errorMessage) ==
  Did([S EXCEPT !.panels = [p \in PanelIds |->
                  IF p \in CuisinePanelIds
                  THEN [@[p] EXCEPT !.mode = "empty", !.emptyText = errorMessage]
                  ELSE @[p]]],
      "showErrorInPanels")

(***************************************************************************)
(* Cuisine selection.                                                      *)
(***************************************************************************)
\* The message of the error a failed load throws.
fetchError(outcome, what, region, cuisine) ==
  IF outcome = "http"
  THEN Msg("Error loading data: Failed to fetch " \o what \o " data", region, cuisine)
  ELSE Msg("Error loading data: Unexpected token in JSON", NULL, NULL)

\* A catch that reports the error in the status indicator only.
cuisineFailed_StatusOnly(S, cuisine, errorMessage) ==
  updateStatus(Did(S, "caught:onCuisineSelected"), "error",
               Msg("Failed to analyze cuisine", NULL, cuisine))

\* onCuisineSelected's catch.
cuisineFailed(S, cuisine, errorMessage) ==
  showErrorInPanels(
    updateStatus(Did(S, "caught:onCuisineSelected"), "error",
                 Msg("Failed to analyze cuisine", NULL, cuisine)),
    errorMessage)

\* onCuisineSelected ending after updateAllPanels, status left as it was.
cuisineLoaded_NoStatus(S, cuisine, cuisineData, competitiveData) ==
  updateAllPanels(S, cuisineData, competitiveData)

\* onCuisineSelected after both documents are loaded.
cuisineLoaded(S, cuisine, cuisineData, competitiveData) ==
  LET T == updateAllPanels(S, cuisineData, competitiveData)
  IN  updateStatus(T, "ready", Msg("analysis complete", T.currentRegion, cuisine))

\* loadCompetitiveData fetching its URL as it is.
cuisineDataLoaded_PlainUrl(S, cuisine, cuisineData) ==
  LET region == S.currentRegion
      key == CompetitiveKey(region, cuisine)
  IN  IF cacheHas(S, key)
      THEN cuisineLoaded(S, cuisine, cuisineData, S.dataCache[key])
      ELSE issueFetch(S, "cuisine", "competitive", key,
                      CompetitiveUrl(region, cuisine), FALSE, region, cuisine,
                      cuisineData)

\* onCuisineSelected after loadCuisineData returned cuisineData: the
\* competitive document is loaded for the region that is current now.
cuisineDataLoaded(S, cuisine, cuisineData) ==
  LET region == S.currentRegion
      key == CompetitiveKey(region, cuisine)
  IN  IF cacheHas(S, key)
      THEN cuisineLoaded(S, cuisine, cuisineData, S.dataCache[key])
      ELSE issueFetch(S, "cuisine", "competitive", key,
                      CompetitiveUrl(region, cuisine), TRUE, region, cuisine,
                      cuisineData)

\* onCuisineSelected that does not look at currentRegion.
onCuisineSelected_IgnoresRegion(S, cuisine) ==
  IF cuisine = ""
  THEN S
  ELSE LET T == clearCuisineContent(
                  updateStatus([S EXCEPT !.currentCuisine = cuisine], "loading",
                               Msg("Analyzing cuisine", S.currentRegion, cuisine)))
           key == CuisineKey(cuisine)
       IN  IF cacheHas(T, key)
           THEN T
           ELSE issueFetch(T, "cuisine", "cuisine", key, CuisineUrl(cuisine),
                           TRUE, S.currentRegion, cuisine, NoDoc)

\* onCuisineSelected(cuisine), up to its first wait for the network.  The
\* record of the suspended handler notes the region that is current at the
\* selection; the handler itself holds only `cuisine` and reads
\* this.currentRegion again when it resumes.
onCuisineSelected(S, cuisine) ==
  IF cuisine = "" \/ S.currentRegion = NULL
  THEN S
  ELSE LET T == clearCuisineContent(
                  updateStatus([S EXCEPT !.currentCuisine = cuisine], "loading",
                               Msg("Analyzing cuisine", S.currentRegion, cuisine)))
           key == CuisineKey(cuisine)
       IN  IF cacheHas(T, key)
           THEN cuisineDataLoaded(T, cuisine, T.dataCache[key])
           ELSE issueFetch(T, "cuisine", "cuisine", key, CuisineUrl(cuisine),
                           TRUE, S.currentRegion, cuisine, NoDoc)

\* Requests onCuisineSelected(cuisine) may issue before it completes.
CuisineNeeds(S, cuisine) ==
  IF cuisine = "" \/ S.currentRegion = NULL THEN 0
  ELSE IF ~cacheHas(S, CuisineKey(cuisine)) THEN 2
  ELSE IF ~cacheHas(S, CompetitiveKey(S.currentRegion, cuisine)) THEN 1
  ELSE 0

\* The user picks a cuisine, or the placeholder, in the enabled cuisine
\* selector: the selector takes the value and its change listener calls
\* onCuisineSelected.
CuisineSelected ==
  /\ listeners
  /\ ~cuisineSelect.disabled
  /\ \E cuisine \in (cuisineSelect.options \cup {""}) \ {cuisineSelect.value} :
       /\ CuisineNeeds(Here, cuisine) = 0 \/ CanIssue(Here, CuisineNeeds(Here, cuisine))
       /\ Commit(onCuisineSelected(
                   Did([Here EXCEPT !.cuisineSelect.value = cuisine],
                       "onCuisineSelected"),
                   cuisine))

\* The cuisine fetch of a suspended cuisine handler resolves.
CuisineFetchResolved ==
  \E h \in handlers, outcome \in {"ok", "http", "parse"} :
    /\ h.pc = "cuisine"
    /\ LET S == resume(Did(Here, Settled(outcome, h.pc)), h)
           doc == Doc("cuisine", NULL, h.cuisine, h.n, CuisineFile(h.cuisine))
       IN  IF outcome = "ok"
           THEN Commit(cuisineDataLoaded(cacheSet(S, h.key, doc), h.cuisine, doc))
           ELSE Commit(cuisineFailed(S, h.cuisine,
                                     fetchError(outcome, "cuisine", NULL, h.cuisine)))

\* The competitive fetch of a suspended cuisine handler resolves.
CompetitiveFetchResolved ==
  \E h \in handlers, outcome \in {"ok", "http", "parse"} :
    /\ h.pc = "competitive"
    /\ LET S == resume(Did(Here, Settled(outcome, h.pc)), h)
           doc == Doc("competitive", h.region, h.cuisine, h.n,
                      CompetitiveFile(h.region, h.cuisine))
       IN  IF outcome = "ok"
           THEN Commit(cuisineLoaded(cacheSet(S, h.key, doc), h.cuisine,
                                     h.cuisineData, doc))
           ELSE Commit(cuisineFailed(S, h.cuisine,
                                     fetchError(outcome, "competitive",
                                                h.region, h.cuisine)))

Next ==
  \/ IndexResolved
  \/ RegionSelected
  \/ RegionDeselected
  \/ RegionalFetchResolved
  \/ CuisineSelected
  \/ CuisineFetchResolved
  \/ CompetitiveFetchResolved

Spec == Init /\ [][Next]_vars

\* A handler is suspended at the await of the given load.
Awaiting(pc) == \E h \in handlers : h.pc = pc

\* Every fetch that was issued resolves: the browser settles each pending
\* request and runs the continuation of the handler awaiting it.  This is
\* weak fairness of the four resolution actions; for the three actions that
\* resume a handler WF_vars(A) is written out as
\* []<>~ENABLED <<A>>_vars \/ []<><<A>>_vars with ENABLED replaced by the
\* state predicate it equals (FairnessGuards).
Fairness ==
  /\ WF_vars(IndexResolved)
  /\ []<>(~Awaiting("regional")) \/ []<><<RegionalFetchResolved>>_vars
  /\ []<>(~Awaiting("cuisine")) \/ []<><<CuisineFetchResolved>>_vars
  /\ []<>(~Awaiting("competitive")) \/ []<><<CompetitiveFetchResolved>>_vars

\* The guards used in Fairness are the enabling conditions of the actions.
FairnessGuards ==
  /\ (initPc = "loading") <=> ENABLED <<IndexResolved>>_vars
  /\ Awaiting("regional") <=> ENABLED <<RegionalFetchResolved>>_vars
  /\ Awaiting("cuisine") <=> ENABLED <<CuisineFetchResolved>>_vars
  /\ Awaiting("competitive") <=> ENABLED <<CompetitiveFetchResolved>>_vars

SpecLive == Spec /\ Fairness
(***************************************************************************)
(* Rendering from cached documents of every shape.                         *)
(*                                                                         *)
(* SpecRender starts where the documents of one selection are already in   *)
(* the cache, for every shape of their optional fields and every display   *)
(* mode the panels may have been left in, and runs the selection handler   *)
(* on them (its cache-hit path, which renders in the same task).           *)
(***************************************************************************)
FullIndex ==
  [coverage |-> TRUE, regions |-> TRUE, top_regions |-> <<"PA", "FL">>,
   cuisines |-> TRUE, main_cuisines |-> <<"Thai", "Pizza">>]

RegionalBodies ==
  [market_overview : BOOLEAN, competitive_environment : BOOLEAN,
   market_opportunities : {<<>>, <<"high", "medium">>},
   cuisine_landscape : BOOLEAN,
   total_restaurants : {<<120>>}, cuisine_diversity : {<<4>>},
   emerging_cuisines : {<<1>>}, dominant_cuisines : {0, 2},
   competition_intensity : {"high"}, overall_quality : {"very_high"}]

CuisineBodies ==
  [market_overview : BOOLEAN, regional_variations : SUBSET RegionIds,
   national_overview : BOOLEAN]

CompetitiveBodies ==
  { k \in [metadata : BOOLEAN, key_competitors : {0, 3, 6},
           differentiation_opportunities : {0, 2}, market_saturation : BOOLEAN,
           regional_context : BOOLEAN, strategic_recommendations : {0, 1},
           null_opportunity : BOOLEAN] :
      k.null_opportunity => k.differentiation_opportunities > 0 }

\* A panel as an earlier selection may have left it.
PriorPanels ==
  { InitialPanel,
    [mode |-> "content", shows |-> Shown("PA", "Thai", "key_competitors", 3),
     emptyText |-> Msg("initial", NULL, NULL)],
    [mode |-> "empty", shows |-> Shown("PA", "Thai", "key_competitors", 3),
     emptyText |-> Msg("Error loading data: Failed to fetch cuisine data",
                       NULL, "Thai")] }

InitRenderCommon ==
  /\ initPc = "done"
  /\ dataIndex = FullIndex
  /\ listeners = TRUE
  /\ regionSelect = [value |-> "", options |-> RegionIds]
  /\ cuisineSelect = [disabled |-> FALSE, placeholder |-> "Select a cuisine...",
                      value |-> "", options |-> CuisineIds]
  /\ currentCuisine = NULL
  /\ net = {}
  /\ handlers = {}
  /\ status = [type |-> "ready", msg |-> Msg("System ready", NULL, NULL)]
  /\ insights = [kind |-> "initial", titles |-> <<>>]
  /\ badges = InitialBadges
  /\ charts = [c \in {"ecosystem", "cuisine"} |-> NoChart]
  /\ live = [c \in {"ecosystem", "cuisine"} |-> 0]
  /\ ops = <<>>

\* The regional document of a region is cached; the region is selected next.
InitRenderRegion ==
  /\ InitRenderCommon
  /\ currentRegion = NULL
  /\ \E region \in RegionIds, body \in RegionalBodies :
       /\ dataCache = [k \in {RegionKey(region)} |->
                         Doc("regional", region, NULL, 1, body)]
       /\ fetches = [k \in AllKeys |-> IF k = RegionKey(region) THEN 1 ELSE 0]
  /\ panels \in [PanelIds -> PriorPanels]

\* A region is current and the documents of one of its cuisines are cached;
\* the cuisine is selected next.
InitRenderCuisine ==
  /\ InitRenderCommon
  /\ \E region \in RegionIds, cuisine \in CuisineIds,
        cbody \in CuisineBodies, kbody \in CompetitiveBodies :
       /\ currentRegion = region
       /\ dataCache =
            [k \in {CuisineKey(cuisine), CompetitiveKey(region, cuisine)} |->
               IF k = CuisineKey(cuisine)
               THEN Doc("cuisine", NULL, cuisine, 1, cbody)
               ELSE Doc("competitive", region, cuisine, 1, kbody)]
       /\ fetches = [k \in AllKeys |->
                       IF k \in {CuisineKey(cuisine),
                                 CompetitiveKey(region, cuisine)}
                       THEN 1 ELSE 0]
  /\ \E prior \in [CuisinePanelIds -> PriorPanels] :
       panels = [p \in PanelIds |->
                   IF p \in CuisinePanelIds THEN prior[p] ELSE InitialPanel]

InitRender == InitRenderRegion \/ InitRenderCuisine

RenderRegion ==
  /\ ops = <<>>
  /\ \E region \in RegionIds :
       /\ cacheHas(Here, RegionKey(region))
       /\ Commit(onRegionSelected(
                   Did([Here EXCEPT !.regionSelect.value = region],
                       "onRegionSelected"),
                   region))

RenderCuisine ==
  /\ ops = <<>>
  /\ currentRegion # NULL
  /\ \E cuisine \in CuisineIds :
       /\ cacheHas(Here, CuisineKey(cuisine))
       /\ cacheHas(Here, CompetitiveKey(currentRegion, cuisine))
       /\ Commit(onCuisineSelected(
                   Did([Here EXCEPT !.cuisineSelect.value = cuisine],
                       "onCuisineSelected"),
                   cuisine))

NextRender ==
  \/ RenderRegion
  \/ RenderCuisine

SpecRender == InitRender /\ [][NextRender]_vars

(***************************************************************************)
(* Cuisine events the handler ignores.                                     *)
(*                                                                         *)
(* SpecIgnored starts in the states of SpecRender and delivers one cuisine *)
(* event that onCuisineSelected returns from at once: the placeholder of   *)
(* the cuisine selector, or any value while currentRegion is null (the     *)
(* handler is a public method of the exported class).                      *)
(***************************************************************************)
CuisineEventIgnored ==
  /\ ops = <<>>
  /\ \E cuisine \in CuisineIds \cup {""} :
       /\ cuisine = "" \/ currentRegion = NULL
       /\ Commit(onCuisineSelected(
                   Did([Here EXCEPT !.cuisineSelect.value = cuisine],
                       "onCuisineSelected"),
                   cuisine))

NextIgnored == CuisineEventIgnored

SpecIgnored == InitRender /\ [][NextIgnored]_vars

(***************************************************************************)
(* The derived metrics over regional documents of every content.           *)
(*                                                                         *)
(* SpecMetrics starts with the regional document of region PA in the       *)
(* cache, for every value of the properties the four metrics read, and     *)
(* selects the region: the handler computes the metrics and writes them    *)
(* into the badges.                                                        *)
(***************************************************************************)
RestaurantCounts == (0 - MaxNegative)..MaxRestaurants
DiversityCounts == (0 - MaxNegative)..MaxDiversity

\* The potential of an entry of market_opportunities; NULL: it has none.
Potentials == {"high", "medium", NULL}

OpportunityLists ==
  UNION { [1..n -> Potentials] : n \in 0..MaxOpportunities }

\* Documents that vary what calculateDiversityScore reads.
DiversityBodies ==
  [market_overview : {TRUE}, competitive_environment : BOOLEAN,
   market_opportunities : {<<>>}, cuisine_landscape : {TRUE},
   total_restaurants : Optional(RestaurantCounts),
   cuisine_diversity : Optional(DiversityCounts),
   emerging_cuisines : Optional(0..MaxEmerging), dominant_cuisines : {1},
   competition_intensity : {"high"}, overall_quality : {"very_high"}]

\* Documents that vary what calculateOpportunityScore reads.
OpportunityBodies ==
  [market_overview : {TRUE}, competitive_environment : {TRUE},
   market_opportunities : OpportunityLists, cuisine_landscape : {TRUE},
   total_restaurants : Optional(RestaurantCounts),
   cuisine_diversity : {<<4>>}, emerging_cuisines : {<<1>>},
   dominant_cuisines : {1},
   competition_intensity : {"high"}, overall_quality : {"very_high"}]

\* Documents without market_overview, with and without cuisine_landscape.
NoOverviewBodies ==
  [market_overview : {FALSE}, competitive_environment : {TRUE},
   market_opportunities : {<<>>, <<"high", "medium">>},
   cuisine_landscape : BOOLEAN,
   total_restaurants : {Absent}, cuisine_diversity : {Absent},
   emerging_cuisines : Optional(0..MaxEmerging), dominant_cuisines : {1},
   competition_intensity : {"high"}, overall_quality : {"very_high"}]

\* The values competition_intensity and overall_quality may have: the four
\* levels, other strings, and NULL for a document without the property.
LevelValues ==
  {"low", "medium", "high", "very_high", "extreme", "Low", "constructor",
   "toString", NULL}

\* Documents that vary what mapSaturationLevel and mapCustomerLevel read.
LevelBodies ==
  [market_overview : {TRUE}, competitive_environment : {TRUE},
   market_opportunities : {<<>>}, cuisine_landscape : {TRUE},
   total_restaurants : {<<40>>}, cuisine_diversity : {<<8>>},
   emerging_cuisines : {<<1>>}, dominant_cuisines : {1},
   competition_intensity : LevelValues, overall_quality : LevelValues]

\* Documents with market_overview {total_restaurants: 40, cuisine_diversity:
\* 8}, with and without each of the other sub-objects.
ScenarioBodies ==
  [market_overview : {TRUE}, competitive_environment : BOOLEAN,
   market_opportunities : {<<>>, <<"high", "medium">>},
   cuisine_landscape : BOOLEAN,
   total_restaurants : {<<40>>}, cuisine_diversity : {<<8>>},
   emerging_cuisines : {<<2>>}, dominant_cuisines : {1},
   competition_intensity : {"high"}, overall_quality : {"very_high"}]

MetricBodies ==
  DiversityBodies \cup OpportunityBodies \cup NoOverviewBodies
    \cup LevelBodies \cup ScenarioBodies

InitMetrics ==
  /\ InitRenderCommon
  /\ currentRegion = NULL
  /\ panels = [p \in PanelIds |-> InitialPanel]
  /\ \E body \in MetricBodies :
       dataCache = [k \in {RegionKey("PA")} |->
                      Doc("regional", "PA", NULL, 1, body)]
  /\ fetches = [k \in AllKeys |-> IF k = RegionKey("PA") THEN 1 ELSE 0]

NextMetrics == RenderRegion

SpecMetrics == InitMetrics /\ [][NextMetrics]_vars

(***************************************************************************)
(* Properties.                                                             *)
(***************************************************************************)
(* Cache keys of identifiers that contain underscores.                     *)
(*                                                                         *)
(* SpecKeys loads documents for region and cuisine identifiers that are    *)
(* any strings over IdChars; the fetches succeed.                          *)
(***************************************************************************)
IdChars == {"a", "_"}

Words(n) ==
  LET RECURSIVE W(_)
      W(k) == IF k = 0 THEN {""} ELSE {w \o c : w \in W(k - 1), c \in IdChars}
  IN  W(n)

Identifiers == UNION {Words(n) : n \in 1..MaxIdLen}

\* The arguments of a load: a region, a cuisine, or a region and a cuisine.
Request(kind, region, cuisine) ==
  [kind |-> kind, region |-> region, cuisine |-> cuisine]

KeyRequests ==
  {Request("regional", r, NULL) : r \in Identifiers}
    \cup {Request("cuisine", NULL, c) : c \in Identifiers}
    \cup {Request("competitive", r, c) : r \in Identifiers, c \in Identifiers}

\* const cacheKey = ... of the three loads.
cacheKey(q) ==
  CASE q.kind = "regional" -> RegionKey(q.region)
    [] q.kind = "cuisine" -> CuisineKey(q.cuisine)
    [] q.kind = "competitive" -> CompetitiveKey(q.region, q.cuisine)

FileOf(q) ==
  CASE q.kind = "regional" -> RegionalFile(q.region)
    [] q.kind = "cuisine" -> CuisineFile(q.cuisine)
    [] q.kind = "competitive" -> CompetitiveFile(q.region, q.cuisine)

\* loadRegionalData, loadCuisineData or loadCompetitiveData whose fetch
\* succeeds: the cached document if the key is in the cache, else the
\* fetched document, which is cached under the key.
loadDocument(S, q) ==
  IF cacheHas(S, cacheKey(q))
  THEN Did(S, "cached:" \o q.kind)
  ELSE cacheSet(Did(S, "fetched:" \o q.kind), cacheKey(q),
                Doc(q.kind, q.region, q.cuisine, 1, FileOf(q)))

InitKeys ==
  /\ initPc = "done"
  /\ dataIndex = FullIndex
  /\ listeners = TRUE
  /\ regionSelect = [value |-> "", options |-> Identifiers]
  /\ cuisineSelect = InitialCuisineSelect
  /\ currentRegion = NULL
  /\ currentCuisine = NULL
  /\ dataCache = << >>
  /\ fetches = [k \in AllKeys |-> 0]
  /\ net = {}
  /\ handlers = {}
  /\ status = [type |-> "ready", msg |-> Msg("System ready", NULL, NULL)]
  /\ panels = [p \in PanelIds |-> InitialPanel]
  /\ insights = [kind |-> "initial", titles |-> <<>>]
  /\ badges = InitialBadges
  /\ charts = [c \in {"ecosystem", "cuisine"} |-> NoChart]
  /\ live = [c \in {"ecosystem", "cuisine"} |-> 0]
  /\ ops = <<>>

LoadDocument ==
  \E q \in KeyRequests :
    /\ cacheHas(Here, cacheKey(q)) \/ Cardinality(DOMAIN dataCache) < MaxCached
    /\ Commit(loadDocument(Here, q))

NextKeys == LoadDocument

SpecKeys == InitKeys /\ [][NextKeys]_vars

(***************************************************************************)
Has(seq, op) == \E i \in 1..Len(seq) : seq[i] = op

StartedBy(op) == ops # <<>> /\ ops[1] = op

AllPanelsEmpty == \A p \in PanelIds : panels[p].mode = "empty"

\* C1: after a region was selected and then deselected, once no fetch is in
\* flight all four panels are in empty mode and the cuisine selector is
\* disabled behind its placeholder, as in the initial state.
C1_DeselectRestoresInitialState ==
  (regionSelect.value = "" /\ currentRegion # NULL /\ net = {})
    => /\ AllPanelsEmpty
       /\ cuisineSelect.disabled
       /\ cuisineSelect.placeholder = InitialCuisineSelect.placeholder
       /\ cuisineSelect.options = {}

\* C2: cache idempotence: no network request is in flight for a key that is
\* cached or that another request in flight already loads, so one request is
\* issued for a key whose fetch succeeds; and a document a handler holds is
\* the object the cache holds for its key.
C2_OneRequestPerKey ==
  /\ \A k \in AllKeys :
       Cardinality({q \in net : q.key = k})
         + (IF k \in DOMAIN dataCache THEN 1 ELSE 0) <= 1
  /\ \A h \in handlers :
       (h.pc = "competitive" /\ CuisineKey(h.cuisine) \in DOMAIN dataCache)
         => dataCache[CuisineKey(h.cuisine)] = h.cuisineData

\* C3: panel consistency: whenever no fetch is in flight, the ecosystem
\* panel's content and the status message belong to currentRegion and the
\* content of the cuisine, competitive and opportunities panels belongs to
\* the pair (currentRegion, currentCuisine).
C3_PanelsMatchSelection ==
  net = {}
    => /\ panels["ecosystem"].mode = "content"
            => panels["ecosystem"].shows.region = currentRegion
       /\ status.msg.region \in {NULL, currentRegion}
       /\ \A p \in CuisinePanelIds :
            (panels[p].mode = "content" /\ panels[p].shows # NoData)
              => /\ panels[p].shows.region \in {NULL, currentRegion}
                 /\ panels[p].shows.cuisine = currentCuisine

RenderOrder ==
  <<"updateCuisinePanel", "updateCompetitivePanel", "updateOpportunitiesPanel",
    "generateComprehensiveInsights", "updateStatus:ready">>

IsRenderOp(op) == op \in Range(RenderOrder)

IsFetchOp(op) == op \in {"fetch:regional", "fetch:cuisine", "fetch:competitive"}

\* C4: a cuisine-selection handler has one fetch in flight at a time, issues
\* the competitive fetch only once it holds the cuisine document, and when
\* both loads succeed renders the cuisine panel, the competitive panel, the
\* opportunities panel and the comprehensive insights in that order and sets
\* status ready last.
C4_SequentialFetchesAndRenderOrder ==
  /\ \A h \in handlers :
       /\ Cardinality({q \in net : q.key = h.key /\ q.n = h.n}) = 1
       /\ h.pc = "competitive"
            => h.cuisineData.kind = "cuisine" /\ h.cuisineData.cuisine = h.cuisine
  /\ Cardinality(net) = Cardinality(handlers)
  /\ Len(SelectSeq(ops, IsFetchOp)) <= 1
  /\ (/\ ops # <<>>
      /\ ops[1] \in {"onCuisineSelected", "resolved:cuisine", "resolved:competitive"}
      /\ \E i \in 1..Len(ops) : IsRenderOp(ops[i]) /\ ops[i] # "updateStatus:ready")
       => /\ SelectSeq(ops, IsRenderOp) = RenderOrder
          /\ ops[Len(ops)] = "updateStatus:ready"
          /\ status.type = "ready"

\* Both documents of a cuisine selection came from the network and were rendered.
C4_Witness ==
  /\ StartedBy("resolved:competitive")
  /\ Has(ops, "generateComprehensiveInsights")
  /\ status.type = "ready"

\* C5: when a fetch of a cuisine selection fails, the handler renders no
\* panel, puts the cuisine, competitive and opportunities panels in the
\* error state showing the failure message, and sets status to error.
C5_FailedCuisineSelectionShowsError ==
  \A pc \in {"cuisine", "competitive"} :
    StartedBy("rejected:" \o pc)
      => /\ \A i \in 1..Len(ops) : ~IsRenderOp(ops[i])
         /\ \A p \in CuisinePanelIds :
              /\ panels[p].mode = "empty"
              /\ panels[p].emptyText.kind \in
                   {"Error loading data: Failed to fetch " \o pc \o " data",
                    "Error loading data: Unexpected token in JSON"}
         /\ status.type = "error"
         /\ status.msg.kind = "Failed to analyze cuisine"

\* The cuisine fetch succeeded, the competitive fetch failed, and the
\* ecosystem panel still shows the region loaded before.
C5_Witness ==
  /\ StartedBy("rejected:competitive")
  /\ panels["ecosystem"].mode = "content"
  /\ panels["competitive"].emptyText.kind =
       "Error loading data: Failed to fetch competitive data"

\* C6: when a region selection issues its regional fetch, currentRegion is
\* the selected region, currentCuisine is null and no panel is left in
\* content mode by an earlier selection.
C6_RegionSelectionClearsPanels ==
  (StartedBy("onRegionSelected") /\ Has(ops, "fetch:regional"))
    => /\ currentRegion = regionSelect.value
       /\ currentCuisine = NULL
       /\ AllPanelsEmpty

\* C7: when the regional fetch of a region selection fails, status is
\* error, every panel is in empty mode and the cuisine selector is neither
\* populated nor enabled.
C7_FailedRegionLeavesEverythingEmpty ==
  StartedBy("rejected:regional")
    => /\ status.type = "error"
       /\ AllPanelsEmpty
       /\ cuisineSelect.disabled
       /\ cuisineSelect.options = {}

\* The data source the strict fallback of the cuisine panel names.
StrictFallbackSource(c, k, region) ==
  IF k.key_competitors > 0 THEN "key_competitors"
  ELSE IF region \in c.regional_variations THEN "regional_variations"
  ELSE IF c.national_overview THEN "national_overview"
  ELSE "none"

\* The documents the selection handler that ran last rendered.
RenderedCuisineData == dataCache[CuisineKey(currentCuisine)]
RenderedCompetitiveData ==
  dataCache[CompetitiveKey(currentRegion, currentCuisine)]

\* C8: the cuisine panel lists the first 5 key_competitors if there are
\* any, otherwise the current region's entry of regional_variations if it
\* exists, otherwise national_overview if present, otherwise nothing.
C8_StrictFallback ==
  StartedBy("onCuisineSelected")
    => LET c == RenderedCuisineData.body
           k == RenderedCompetitiveData.body
           source == StrictFallbackSource(c, k, currentRegion)
       IN  IF source = "none"
           THEN panels["cuisine"].mode = "empty"
           ELSE /\ panels["cuisine"].mode = "content"
                /\ panels["cuisine"].shows.source = source
                /\ panels["cuisine"].shows.n =
                     (IF source = "key_competitors"
                      THEN Min(5, k.key_competitors) ELSE 1)

\* C9: after a successful region handler the ecosystem panel is in content
\* mode iff the regional document has market_overview or
\* competitive_environment; after a successful cuisine handler the cuisine
\* panel is in content mode iff a display record was selected, the
\* competitive panel iff key_competitors is non-empty and the opportunities
\* panel iff differentiation_opportunities is non-empty; whatever the modes
\* were before.
C9_PanelModeFromDocuments ==
  /\ (StartedBy("onRegionSelected") /\ status.type = "ready")
       => LET b == dataCache[RegionKey(currentRegion)].body
          IN  (panels["ecosystem"].mode = "content")
                <=> (b.market_overview \/ b.competitive_environment)
  /\ (StartedBy("onCuisineSelected") /\ status.type = "ready")
       => LET c == RenderedCuisineData.body
              k == RenderedCompetitiveData.body
          IN  /\ (panels["cuisine"].mode = "content")
                   <=> \/ k.key_competitors > 0
                       \/ /\ k.key_competitors = 0
                          /\ currentRegion \in c.regional_variations
                       \/ /\ k.key_competitors = 0
                          /\ c.regional_variations = {}
                          /\ c.national_overview
              /\ (panels["competitive"].mode = "content")
                   <=> k.key_competitors > 0
              /\ (panels["opportunities"].mode = "content")
                   <=> k.differentiation_opportunities > 0
  /\ \A p \in PanelIds : panels[p].mode \in {"empty", "content"}

\* A cuisine handler left the three panels in different modes: no
\* competitors, a national overview to list, opportunities to show.
C9_Witness ==
  /\ StartedBy("onCuisineSelected")
  /\ status.type = "ready"
  /\ panels["cuisine"].mode = "content"
  /\ panels["cuisine"].shows.source = "national_overview"
  /\ panels["competitive"].mode = "empty"
  /\ panels["competitive"].emptyText.kind # "initial"
  /\ panels["opportunities"].mode = "content"

\* C10: selection is hierarchical: currentCuisine is non-null only if
\* currentRegion is non-null, and every step that changes currentRegion
\* leaves currentCuisine null.
C10_HierarchicalSelection ==
  [][/\ currentCuisine' # NULL => currentRegion' # NULL
     /\ currentRegion' # currentRegion => currentCuisine' = NULL]_vars

\* The region changed after a cuisine of the earlier region had been analysed.
C10_Witness ==
  /\ currentRegion = "FL"
  /\ currentCuisine = NULL
  /\ CompetitiveKey("PA", "Thai") \in DOMAIN dataCache

IsCaught(op) ==
  op \in {"caught:init", "caught:onRegionSelected", "caught:onCuisineSelected",
          "caught:updateOpportunitiesPanel"}

\* C11: no error is silently dropped: a task in which the controller caught
\* an error (at a handler boundary or inside a panel render) leaves the
\* status indicator in the error state, never at ready.
C11_CaughtErrorsReachStatus ==
  (\E i \in 1..Len(ops) : IsCaught(ops[i]))
    => /\ status.type = "error"
       /\ \E i, j \in 1..Len(ops) :
            i < j /\ IsCaught(ops[i]) /\ ops[j] = "updateStatus:error"

IsRejected(op) ==
  op \in {"rejected:regional", "rejected:cuisine", "rejected:competitive"}

\* C12: the task in which a regional, cuisine or competitive fetch fails
\* stores nothing in the cache and issues no request, and the listeners stay
\* attached; requests are issued only by a selection event or by the
\* cuisine handler going on to its competitive document; and a selection
\* whose key is not cached issues a request for it, whatever failed before.
C12_FailedFetchNotCachedNotRetried ==
  [][/\ (ops' # <<>> /\ IsRejected(ops'[1]))
          => /\ dataCache' = dataCache
             /\ fetches' = fetches
             /\ net' \subseteq net
             /\ listeners'
     /\ fetches' # fetches
          => ops'[1] \in {"onRegionSelected", "onCuisineSelected",
                         "resolved:cuisine"}
     /\ (/\ ops' # <<>> /\ ops'[1] = "onRegionSelected"
         /\ regionSelect'.value # ""
         /\ RegionKey(regionSelect'.value) \notin DOMAIN dataCache)
          => fetches'[RegionKey(regionSelect'.value)]
               = fetches[RegionKey(regionSelect'.value)] + 1
     /\ (/\ ops' # <<>> /\ ops'[1] = "onCuisineSelected"
         /\ cuisineSelect'.value # "" /\ currentRegion # NULL
         /\ CuisineKey(cuisineSelect'.value) \notin DOMAIN dataCache)
          => fetches'[CuisineKey(cuisineSelect'.value)]
               = fetches[CuisineKey(cuisineSelect'.value)] + 1]_vars

\* A region whose only earlier fetch failed is selected again and requested
\* a second time.
C12_Witness ==
  /\ StartedBy("onRegionSelected")
  /\ Has(ops, "fetch:regional")
  /\ fetches[RegionKey(regionSelect.value)] = 2
  /\ RegionKey(regionSelect.value) \notin DOMAIN dataCache
  /\ Cardinality({q \in net : q.key = RegionKey(regionSelect.value)}) = 1

\* C13: when the index fetch fails or the parsed index lacks
\* coverage.regions, initialisation ends with status error, no listener is
\* attached, and the state is terminal: no later step issues a fetch or
\* changes the status, the panels, the cache or the selection.
C13_IndexFailureIsTerminal ==
  [][/\ initPc # "failed"
     /\ (initPc' # "loading" /\ ~(dataIndex'.coverage /\ dataIndex'.regions))
          => /\ initPc' = "failed"
             /\ status'.type = "error"
             /\ status'.msg.kind = "System initialization failed"
             /\ ~listeners'
             /\ net' = {} /\ handlers' = {}
             /\ DOMAIN dataCache' = {}
             /\ currentRegion' = NULL /\ currentCuisine' = NULL
             /\ \A p \in PanelIds : panels'[p] = InitialPanel]_vars

\* Initialisation failed on an index that has coverage but no regions.
C13_Witness ==
  /\ initPc = "failed"
  /\ dataIndex.coverage /\ ~dataIndex.regions
  /\ status.type = "error"

\* C14: whenever initialisation completes with status ready, the index
\* holds a non-empty region list and a non-empty cuisine list.
C14_ReadyIndexHasRegionsAndCuisines ==
  (initPc = "done")
    => /\ dataIndex.regions /\ Len(dataIndex.top_regions) > 0
       /\ dataIndex.cuisines /\ Len(dataIndex.main_cuisines) > 0

ChartSlots == {"ecosystem", "cuisine"}

\* The position of the last occurrence of op in seq, 0 if there is none.
LastIndex(seq, op) ==
  IF Has(seq, op)
  THEN CHOOSE i \in 1..Len(seq) :
         seq[i] = op /\ \A j \in (i + 1)..Len(seq) : seq[j] # op
  ELSE 0

\* C15: each chart slot has at most one live chart instance, every live
\* chart is the one the registry references, and a chart is created over a
\* registered one only after that one was destroyed.
C15_OneLiveChartPerSlot ==
  [][\A slot \in ChartSlots :
       /\ live'[slot] \in {0, 1}
       /\ live'[slot] = 1 <=> charts'[slot] # NoChart
       /\ (charts[slot] # NoChart /\ Has(ops', "new Chart:" \o slot))
            => /\ Has(ops', "destroy:" \o slot)
               /\ LastIndex(ops', "destroy:" \o slot)
                    < LastIndex(ops', "new Chart:" \o slot)]_vars

\* Both charts were created again over the charts of an earlier selection.
C15_Witness ==
  /\ live["ecosystem"] = 1 /\ live["cuisine"] = 1
  /\ Has(ops, "destroy:cuisine") /\ Has(ops, "new Chart:cuisine")
  /\ fetches[RegionKey("PA")] >= 1 /\ fetches[RegionKey("FL")] >= 1

\* C16: a region deselection, from any state, destroys every registered
\* chart, leaves the registry empty and sets the status to the ready
\* "Select a region to begin analysis" baseline.
C16_DeselectionResetsCharts ==
  [][Has(ops', "clearAllPanels")
       => /\ ops'[1] = "onRegionSelected" /\ regionSelect'.value = ""
          /\ \A slot \in ChartSlots :
               /\ charts'[slot] = NoChart
               /\ live'[slot] = 0
               /\ charts[slot] # NoChart <=> Has(ops', "destroy:" \o slot)
          /\ status' = [type |-> "ready",
                        msg |-> Msg("Select a region to begin analysis",
                                    NULL, NULL)]
          /\ ops'[Len(ops')] = "updateStatus:ready"]_vars

\* A deselection destroyed both charts while a request was in flight.
C16_Witness ==
  /\ Has(ops, "clearAllPanels")
  /\ Has(ops, "destroy:ecosystem") /\ Has(ops, "destroy:cuisine")
  /\ net # {}

\* C17: the cache only grows: a key once stored is present, with the same
\* document or a later fetch's, in every later state; and a key is stored
\* only by the task in which a network fetch for it succeeded.
C17_CacheOnlyGrows ==
  [][/\ DOMAIN dataCache \subseteq DOMAIN dataCache'
     /\ \A k \in DOMAIN dataCache' :
          /\ dataCache'[k].n \in 1..fetches'[k]
          /\ ~\E q \in net' : q.key = k /\ q.n = dataCache'[k].n
          /\ (k \notin DOMAIN dataCache \/ dataCache'[k] # dataCache[k])
               => /\ ops'[1] \in {"resolved:regional", "resolved:cuisine",
                                  "resolved:competitive"}
                  /\ \E q \in net \ net' : q.key = k /\ q.n = dataCache'[k].n]_vars

\* Documents of all three kinds are still cached after a deselection has
\* reset the page.
C17_Witness ==
  /\ Has(ops, "clearAllPanels")
  /\ Cardinality(DOMAIN dataCache) = 3

\* The region handler computed the metrics of the current region's
\* document and wrote them into the badges.
MetricsRendered ==
  /\ StartedBy("onRegionSelected")
  /\ Has(ops, "updateEcosystemPanel")
  /\ panels["ecosystem"].mode = "content"

RenderedRegionalBody == dataCache[RegionKey(currentRegion)].body

Max(a, b) == IF a > b THEN a ELSE b

Clamp(lo, hi, v) == Max(lo, Min(hi, v))

\* C18: calculateDiversityScore returns a number in [0,100] for any integer
\* or absent cuisine_diversity, any integer or absent total_restaurants and
\* any emerging_cuisines list, and its divisor is never zero.
C18_DiversityScoreBounded ==
  MetricsRendered
    => /\ badges.diversityScore # Absent
       /\ badges.diversityScore[1] \in 0..100
       /\ OrElse(overviewOf(RenderedRegionalBody).total_restaurants, 1) # 0

\* The reference diversity score: clamp to [0,100] of
\* round(min(100, cuisine_diversity / max(total_restaurants, 1) * 1000)
\*       + 5 * |emerging_cuisines|), absent properties read as 0 or empty.
DiversityReference(b) ==
  LET overview == overviewOf(b)
      landscape == landscapeOf(b)
      diversity == IF overview.cuisine_diversity = Absent THEN 0
                   ELSE overview.cuisine_diversity[1]
      restaurants == IF overview.total_restaurants = Absent THEN 1
                     ELSE Max(overview.total_restaurants[1], 1)
      emerging == IF landscape.emerging_cuisines = Absent THEN 0
                  ELSE landscape.emerging_cuisines[1]
  IN  Clamp(0, 100,
            IF 1000 * diversity >= 100 * restaurants THEN 100 + 5 * emerging
            ELSE Round(1000 * diversity + 5 * emerging * restaurants,
                       restaurants))

\* C19: for every input calculateDiversityScore equals the reference
\* diversity score.
C19_DiversityScoreIsReference ==
  MetricsRendered
    => badges.diversityScore = <<DiversityReference(RenderedRegionalBody)>>

\* The reference opportunity score: 50, plus 10 per opportunity, plus 15
\* per opportunity of high potential, plus 20 under 50 restaurants or 10
\* under 100, clamped to [0,100]; an absent total_restaurants counts as 0.
OpportunityReference(b) ==
  LET opportunities == b.market_opportunities
      high == {i \in 1..Len(opportunities) : opportunities[i] = "high"}
      restaurants == IF overviewOf(b).total_restaurants = Absent THEN 0
                     ELSE overviewOf(b).total_restaurants[1]
  IN  Clamp(0, 100,
            50 + 10 * Len(opportunities) + 15 * Cardinality(high)
               + (IF restaurants < 50 THEN 20
                  ELSE IF restaurants < 100 THEN 10 ELSE 0))

\* C20: for every opportunities list and overview calculateOpportunityScore
\* equals the reference opportunity score; an empty list with
\* total_restaurants 30 gives 70.
C20_OpportunityScoreIsReference ==
  MetricsRendered
    => /\ badges.opportunityScore = <<OpportunityReference(RenderedRegionalBody)>>
       /\ (/\ RenderedRegionalBody.market_opportunities = <<>>
           /\ overviewOf(RenderedRegionalBody).total_restaurants = <<30>>)
            => badges.opportunityScore = <<70>>

\* The score of a document with no opportunities and 30 restaurants was
\* written into the badge.
C20_Witness ==
  /\ MetricsRendered
  /\ RenderedRegionalBody.market_opportunities = <<>>
  /\ overviewOf(RenderedRegionalBody).total_restaurants = <<30>>
  /\ badges.opportunityScore = <<70>>

\* The level mappings as specified: the four levels, and the default for
\* every other and for an absent input.
SaturationReference(competitionIntensity) ==
  CASE competitionIntensity = "low" -> "Low"
    [] competitionIntensity = "medium" -> "Medium"
    [] competitionIntensity = "high" -> "High"
    [] competitionIntensity = "very_high" -> "Very High"
    [] OTHER -> "Medium"

CustomerReference(overallQuality) ==
  CASE overallQuality = "low" -> "Basic"
    [] overallQuality = "medium" -> "Moderate"
    [] overallQuality = "high" -> "Sophisticated"
    [] overallQuality = "very_high" -> "Expert"
    [] OTHER -> "Moderate"

\* C21: mapSaturationLevel returns "Low", "Medium", "High", "Very High" for
\* low, medium, high, very_high, and "Medium" for every other input and for
\* an absent input.
C21_SaturationLevelMapping ==
  MetricsRendered
    => badges.saturationLevel =
         SaturationReference(
           competitiveOf(RenderedRegionalBody).competition_intensity)

\* C22: mapCustomerLevel returns "Basic", "Moderate", "Sophisticated",
\* "Expert" for low, medium, high, very_high, and "Moderate" for every other
\* input and for an absent input.
C22_CustomerLevelMapping ==
  MetricsRendered
    => badges.customerSophistication =
         CustomerReference(competitiveOf(RenderedRegionalBody).overall_quality)

\* C23: after a successful region selection whose document has
\* market_overview or competitive_environment, the four badges show the
\* four metrics computed from that document, every absent sub-object read
\* as an empty one; market_overview {total_restaurants: 40,
\* cuisine_diversity: 8} with no market_opportunities and no
\* competitive_environment shows 100, 70, "Medium" and "Moderate".
C23_BadgesShowMetrics ==
  (StartedBy("onRegionSelected") /\ status.type = "ready"
     /\ regionSelect.value # "")
    => LET b == RenderedRegionalBody
           empty == [total_restaurants |-> Absent, cuisine_diversity |-> Absent,
                     competition_intensity |-> NULL, overall_quality |-> NULL,
                     emerging_cuisines |-> Absent]
           overview == IF b.market_overview THEN b ELSE empty
           competitive == IF b.competitive_environment THEN b ELSE empty
           landscape == IF b.cuisine_landscape THEN b ELSE empty
       IN  (b.market_overview \/ b.competitive_environment)
             => /\ badges.diversityScore =
                     <<calculateDiversityScore(overview, landscape)>>
                /\ badges.saturationLevel =
                     mapSaturationLevel(competitive.competition_intensity)
                /\ badges.opportunityScore =
                     <<calculateOpportunityScore(b.market_opportunities, overview)>>
                /\ badges.customerSophistication =
                     mapCustomerLevel(competitive.overall_quality)
                /\ (/\ b.market_overview /\ ~b.competitive_environment
                    /\ b.total_restaurants = <<40>> /\ b.cuisine_diversity = <<8>>
                    /\ b.market_opportunities = <<>>)
                     => badges =
                          [diversityScore |-> <<100>>,
                           saturationLevel |-> "Medium",
                           opportunityScore |-> <<70>>,
                           customerSophistication |-> "Moderate"]

\* The document of the example was rendered.
C23_Witness ==
  /\ MetricsRendered
  /\ status.type = "ready"
  /\ RenderedRegionalBody.market_overview
  /\ ~RenderedRegionalBody.competitive_environment
  /\ ~RenderedRegionalBody.cuisine_landscape
  /\ RenderedRegionalBody.total_restaurants = <<40>>
  /\ RenderedRegionalBody.cuisine_diversity = <<8>>
  /\ RenderedRegionalBody.market_opportunities = <<>>
  /\ badges.diversityScore = <<100>>
  /\ badges.opportunityScore = <<70>>

\* The titles of the regional and of the comprehensive insights, in the
\* order of their checks.
RegionalInsightOrder ==
  <<"Regional Market Overview", "Business Environment", "Market Opportunities",
    "Cuisine Landscape">>

ComprehensiveInsightOrder ==
  <<"Market Analysis", "Competitive Landscape", "Market Positioning Strategy",
    "Strategic Recommendation">>

RegionalInsightsDisplayed ==
  /\ StartedBy("onRegionSelected")
  /\ regionSelect.value # ""
  /\ status.type = "ready"

ComprehensiveInsightsDisplayed ==
  /\ StartedBy("onCuisineSelected")
  /\ Has(ops, "generateComprehensiveInsights")
  /\ status.type = "ready"

ComprehensiveFieldPresent(title) ==
  LET c == RenderedCuisineData.body
      k == RenderedCompetitiveData.body
  IN  \/ title = "Market Analysis" /\ c.market_overview
      \/ title = "Competitive Landscape" /\ k.market_saturation
      \/ title = "Market Positioning Strategy" /\ k.regional_context
      \/ title = "Strategic Recommendation" /\ k.strategic_recommendations > 0

\* The regional document has the field a regional insight is about
\* (a list counts as present when it has an entry).
RegionalFieldPresent(title) ==
  LET b == RenderedRegionalBody
  IN  \/ title = "Regional Market Overview" /\ b.market_overview
      \/ title = "Business Environment" /\ b.competitive_environment
      \/ title = "Market Opportunities" /\ Len(b.market_opportunities) > 0
      \/ title = "Cuisine Landscape" /\ b.cuisine_landscape

\* The same, with cuisine_landscape counted only when it lists a dominant
\* cuisine.
RegionalInsightEmitted(title) ==
  IF title = "Cuisine Landscape"
  THEN RenderedRegionalBody.cuisine_landscape
         /\ RenderedRegionalBody.dominant_cuisines > 0
  ELSE RegionalFieldPresent(title)

InsightTitles ==
  IF insights.kind = "insights" THEN insights.titles ELSE <<>>

\* C24 as stated: the insight sequence has exactly one insight per present
\* optional field, in the fixed order of the fields.
C24_OneInsightPerPresentField ==
  /\ RegionalInsightsDisplayed
       => InsightTitles = SelectSeq(RegionalInsightOrder, RegionalFieldPresent)
  /\ ComprehensiveInsightsDisplayed
       => InsightTitles =
            SelectSeq(ComprehensiveInsightOrder, ComprehensiveFieldPresent)

\* C24 amended: the insight sequence has exactly one insight per present
\* optional field, in the fixed order of the fields, where cuisine_landscape
\* contributes its insight only if its dominant_cuisines list is non-empty.
C24_InsightsInFixedOrder ==
  /\ RegionalInsightsDisplayed
       => InsightTitles = SelectSeq(RegionalInsightOrder, RegionalInsightEmitted)
  /\ ComprehensiveInsightsDisplayed
       => InsightTitles =
            SelectSeq(ComprehensiveInsightOrder, ComprehensiveFieldPresent)

\* The comprehensive insights of documents without market_saturation: the
\* first, third and fourth insight, in that order.
C24_Witness ==
  /\ ComprehensiveInsightsDisplayed
  /\ ~RenderedCompetitiveData.body.market_saturation
  /\ insights.titles =
       <<"Market Analysis", "Market Positioning Strategy",
         "Strategic Recommendation">>

\* The elements the insights container holds: the insight items, or the
\* one empty-state element of the initial text and of the placeholder.
InsightElements ==
  IF insights.kind = "insights" THEN Len(insights.titles) ELSE 1

\* C25: when a selection handler has built an empty insight sequence the
\* insights container shows exactly the one placeholder, and the container
\* is never empty.
C25_PlaceholderForNoInsights ==
  /\ (/\ RegionalInsightsDisplayed
      /\ SelectSeq(RegionalInsightOrder, RegionalInsightEmitted) = <<>>)
       => insights = [kind |-> "placeholder", titles |-> <<>>]
  /\ (/\ ComprehensiveInsightsDisplayed
      /\ SelectSeq(ComprehensiveInsightOrder, ComprehensiveFieldPresent) = <<>>)
       => insights = [kind |-> "placeholder", titles |-> <<>>]
  /\ insights.kind \in {"initial", "placeholder", "insights"}
  /\ InsightElements >= 1

\* A cuisine was analysed whose documents have none of the four fields:
\* the cuisine panel has content and the container shows the placeholder.
C25_Witness ==
  /\ ComprehensiveInsightsDisplayed
  /\ panels["cuisine"].mode = "content"
  /\ insights.kind = "placeholder"

\* C26: a fetch chain is not cancelled by a later selection: whenever a
\* regional fetch resolves its handler renders the ecosystem panel, the
\* cuisine selector and the regional insights and sets status ready for its
\* own region, and whenever a competitive fetch resolves its handler
\* renders the cuisine panels and sets status ready, whatever was selected
\* in between.
C26_SupersededHandlersStillRender ==
  /\ StartedBy("resolved:regional")
       => /\ Has(ops, "updateEcosystemPanel")
          /\ Has(ops, "populateCuisineSelector")
          /\ Has(ops, "displayInsights")
          /\ ops[Len(ops)] = "updateStatus:ready"
          /\ status.msg.kind = "Region loaded successfully"
          /\ fetches[RegionKey(status.msg.region)] >= 1
  /\ StartedBy("resolved:competitive")
       => /\ SelectSeq(ops, IsRenderOp) = RenderOrder
          /\ status.msg.kind = "analysis complete"

\* The fetch of a region resolved after another region was selected and
\* loaded: the ecosystem panel and the status show a region that is not
\* currentRegion, and no request is left to change that.
C26_Witness ==
  /\ StartedBy("resolved:regional")
  /\ net = {}
  /\ currentRegion # NULL
  /\ regionSelect.value = currentRegion
  /\ status.msg.region # currentRegion
  /\ panels["ecosystem"].mode = "content"
  /\ panels["ecosystem"].shows.region = status.msg.region

\* How the tasks of a cuisine-selection handler start.
CuisineHandlerTasks ==
  {"onCuisineSelected", "resolved:cuisine", "rejected:cuisine",
   "resolved:competitive", "rejected:competitive"}

\* C27: every step of a cuisine-selection handler, whether its fetches
\* succeed or fail, leaves the ecosystem panel's mode and content, the
\* badges and the ecosystem chart as they were.
C27_CuisineHandlerKeepsEcosystem ==
  [][(ops' # <<>> /\ ops'[1] \in CuisineHandlerTasks)
       => /\ panels'["ecosystem"] = panels["ecosystem"]
          /\ badges' = badges
          /\ charts'["ecosystem"] = charts["ecosystem"]
          /\ live'["ecosystem"] = live["ecosystem"]]_vars

\* The competitive fetch of a cuisine selection failed and the cuisine
\* panels show the error, next to the ecosystem panel, badges and chart of
\* the region.
C27_Witness ==
  /\ StartedBy("rejected:competitive")
  /\ Has(ops, "showErrorInPanels")
  /\ panels["ecosystem"].mode = "content"
  /\ badges # InitialBadges
  /\ charts["ecosystem"] # NoChart

\* C28: a cuisine selection event with an empty value, or one that arrives
\* while currentRegion is null, is a no-op: it issues no fetch and leaves
\* currentCuisine, the status, the panels, the cache and the charts as they
\* were.
C28_IgnoredCuisineEventIsNoOp ==
  [][(/\ ops' # <<>> /\ ops'[1] = "onCuisineSelected"
      /\ (cuisineSelect'.value = "" \/ currentRegion = NULL))
       => /\ ops' = <<"onCuisineSelected">>
          /\ UNCHANGED <<currentRegion, currentCuisine, status, panels, badges,
                         insights, dataCache, fetches, net, handlers, charts,
                         live>>]_vars

\* A cuisine event was handled while currentRegion was null.
C28_Witness ==
  /\ StartedBy("onCuisineSelected")
  /\ currentRegion = NULL
  /\ cuisineSelect.value \in CuisineIds
  /\ currentCuisine = NULL

\* The request for the data index, in flight until init resumes.
IndexRequest == [key |-> "index", n |-> 1, url |-> IndexUrl, bust |-> FALSE]

\* Every request in flight.
Requests == net \cup (IF initPc = "loading" THEN {IndexRequest} ELSE {})

\* C29: every network request for a cuisine document or a competitive
\* document carries the cache-defeating query parameter, and no request for
\* the data index or a regional document carries one.
C29_CacheBustingOnCuisineAndCompetitive ==
  \A q \in Requests :
    /\ \/ q.url = IndexUrl
       \/ \E r \in RegionIds : q.url = RegionUrl(r)
       \/ \E c \in CuisineIds : q.url = CuisineUrl(c)
       \/ \E r \in RegionIds, c \in CuisineIds : q.url = CompetitiveUrl(r, c)
    /\ q.bust <=> \/ \E c \in CuisineIds : q.url = CuisineUrl(c)
                  \/ \E r \in RegionIds, c \in CuisineIds :
                       q.url = CompetitiveUrl(r, c)

\* A regional request without the parameter and a competitive request with it
\* are in flight together.
C29_Witness ==
  /\ \E q \in net : (\E r \in RegionIds : q.url = RegionUrl(r)) /\ ~q.bust
  /\ \E q \in net : /\ \E r \in RegionIds, c \in CuisineIds :
                          q.url = CompetitiveUrl(r, c)
                     /\ q.bust

\* The suspended cuisine handlers that resume in this step.
ResumedCuisineHandlers == {h \in handlers \ handlers' : h.kind = "cuisine"}

\* C30: the competitive document a cuisine handler fetches is the one for
\* the region that was current when its cuisine was selected, and the
\* handler renders its panels with that region and that cuisine current,
\* whatever was selected while its fetches were pending.
C30_CompetitiveForRegionAtSelection ==
  [][\A h \in ResumedCuisineHandlers :
       /\ h.pc = "cuisine"
            => \A g \in handlers' \ handlers :
                 g.pc = "competitive"
                   => g.region = h.region /\ g.cuisine = h.cuisine
       /\ Has(ops', "updateCuisinePanel")
            => currentRegion' = h.region /\ currentCuisine' = h.cuisine]_vars

\* The messages showErrorInPanels writes for a failed cuisine selection.
ErrorTexts ==
  {"Error loading data: Failed to fetch cuisine data",
   "Error loading data: Failed to fetch competitive data",
   "Error loading data: Unexpected token in JSON"}

\* C31: after a cuisine selection that ends with status ready, no cuisine,
\* competitive or opportunities panel shows the error message of an earlier
\* failed cuisine selection, a panel in empty mode included; after a region
\* deselection these panels show the initial empty state.
C31_NoStaleErrorMessage ==
  /\ (Has(ops, "updateCuisinePanel") /\ status.type = "ready")
       => \A p \in CuisinePanelIds :
            panels[p].mode = "empty" => panels[p].emptyText.kind \notin ErrorTexts
  /\ Has(ops, "clearAllPanels")
       => \A p \in CuisinePanelIds :
            /\ panels[p].mode = "empty"
            /\ panels[p].emptyText = InitialPanel.emptyText

\* No request is pending and no handler is suspended.
Quiescent == initPc # "loading" /\ net = {} /\ handlers = {}

\* C32: when every issued fetch resolves, a selection that set status to
\* loading is followed by status ready or error, every suspended handler
\* ends, and status is not loading while no fetch is in flight.
C32_SelectionsEndReadyOrError ==
  /\ [](Quiescent => status.type # "loading")
  /\ (status.type = "loading") ~> (status.type \in {"ready", "error"})
  /\ (handlers # {}) ~> (handlers = {})

\* A cuisine selection ended in its catch and nothing is pending.
C32_Witness ==
  /\ StartedBy("rejected:competitive")
  /\ Quiescent
  /\ status.type = "error"

\* C33: different requests have different cache keys, identifiers with
\* underscores included, so the document the cache holds under the key of a
\* request is the document of that request.
C33_CacheKeysInjective ==
  \A q \in KeyRequests :
    cacheHas(Here, cacheKey(q))
      => LET d == dataCache[cacheKey(q)]
         IN  d.kind = q.kind /\ d.region = q.region /\ d.cuisine = q.cuisine

\* The latest task ran onRegionSelected or onCuisineSelected, from its start
\* or from one of its awaits.
HandlerRan ==
  \/ StartedBy("onRegionSelected") \/ StartedBy("onCuisineSelected")
  \/ \E pc \in {"regional", "cuisine", "competitive"} :
       StartedBy("resolved:" \o pc) \/ StartedBy("rejected:" \o pc)

\* C34: the selection handlers are registered only after the data index was
\* fetched and validated: whenever a handler runs, dataIndex is set and has
\* coverage.regions; and init sets status ready only after it attached the
\* listeners and populated the region selector.
C34_HandlersAfterValidIndex ==
  /\ HandlerRan => listeners
  /\ listeners
       => /\ initPc = "done"
          /\ dataIndex # NoIndex
          /\ dataIndex.coverage /\ dataIndex.regions
  /\ initPc # "done" => status.type # "ready"
  /\ Has(ops, "setupEventListeners")
       => ops = <<"setupEventListeners", "populateRegionSelector",
                  "updateStatus:ready">>

\* A cuisine handler resumed from its cuisine fetch and asked for the
\* competitive document, long after init attached the listeners.
C34_Witness ==
  /\ StartedBy("resolved:cuisine")
  /\ Has(ops, "fetch:competitive")
  /\ listeners
  /\ dataIndex.coverage /\ dataIndex.regions

\* A data point that is exactly the number v.
Exactly(v) == [near |-> v, off |-> 0]

\* C35: for every regional document the Diversity and Opportunity data
\* points of the ecosystem chart equal the diversity score and the
\* opportunity score shown in the badges, a diversity score of 0 included.
C35_ChartPointsEqualBadges ==
  MetricsRendered
    => /\ charts["ecosystem"].data[1] = Exactly(badges.diversityScore[1])
       /\ charts["ecosystem"].data[2] = Exactly(badges.opportunityScore[1])

====
